---------------------------- MODULE Spec2Model ----------------------------
(***************************************************************************)
(* A model of the Finance ML Service (src/ml-service/main.py): the three   *)
(* batch engines /cluster, /anomalies and /forecast as request handlers    *)
(* that run step by step inside their try/except blocks, the single        *)
(* transaction scorer /score-transaction and the persona rule cascade.     *)
(*                                                                         *)
(* Conventions.                                                            *)
(*  - A transaction is a record [ts, amount, type, category]; ts counts    *)
(*    ticks (TicksPerDay ticks a day) from a Monday 00:00, so that         *)
(*    `.dt.date` (ts \div TicksPerDay) is a real truncation.  merchantName *)
(*    is read by none of the modelled handlers and is left out.            *)
(*  - A real number the code computes by division is kept exact as a       *)
(*    rational <<num, den>> with den > 0 and compared by cross             *)
(*    multiplication; NaN is the value NaN, and every comparison with NaN  *)
(*    is FALSE as in IEEE arithmetic.                                      *)
(*  - The fitted models of scikit-learn (KMeans, IsolationForest) are      *)
(*    outside the repository: their results are nondeterministic choices   *)
(*    within the library's contract.                                       *)
(***************************************************************************)
EXTENDS Integers, Sequences, FiniteSets, TLC

(* ------------------------------ bounds -------------------------------- *)

\* largest transaction list sent to /cluster
MaxClusterTx == 4
\* largest transaction list sent to /anomalies
MaxAnomalyTx == 6
\* largest number of Expense transactions sent to /forecast
MaxForecastTx == 14
\* largest forecast_days of a request
MaxForecastDays == 3
\* longest history sent to /score-transaction
MaxHist == 3
\* fixed-point resolution of the forecast arithmetic: a unit is 1/FP
FP == 100
\* ticks (time-of-day resolution) per calendar day
TicksPerDay == 2
\* largest horizon of the confidence curve
MaxHorizon == 13
\* most days of history of the confidence curve
MaxHistoryDays == 15

(* ------------------------- program constants -------------------------- *)

\* main.py:151  len(request.transactions) < 3
MinClusterTx == 3
\* main.py:222  len(request.transactions) < 5
MinAnomalyTx == 5
\* main.py:295  len(request.transactions) < 10
MinForecastTx == 10
\* main.py:304  len(expenses) < 10
MinExpenseTx == 10
\* main.py:329, 349-353  the span of the EMA and the window of the trend fit
TrendWindow == 7
\* main.py:334, 371  days of history that switch weekly seasonality on
SeasonalityDays == 14
\* main.py:367  max(100, predicted)
MinDailySpend == 100
\* main.py:162  max(2, features_df.shape[0] - 1)
MinClusters == 2

(* ------------------------------ helpers ------------------------------- *)

Min(a, b) == IF a < b THEN a ELSE b

Max(a, b) == IF a > b THEN a ELSE b

Range(s) == {s[i] : i \in DOMAIN s}

RECURSIVE SumSeq(_)
SumSeq(s) == IF s = <<>> THEN 0 ELSE Head(s) + SumSeq(Tail(s))

SetMin(S) == CHOOSE x \in S : \A y \in S : x <= y

SetMax(S) == CHOOSE x \in S : \A y \in S : x >= y

(* ------------------------ rationals and NaN --------------------------- *)

\* a float is a pair <<num, den>>: the rational num/den when den > 0, and
\* NaN when den = 0
NaN == <<0, 0>>

IsNaN(r) == r[2] = 0

\* r > n/d, r < n/d for a float r and d > 0; FALSE when r is NaN
RGt(r, n, d) == r[1] * d > n * r[2]

RLt(r, n, d) == r[1] * d < n * r[2]

\* a <= b for two floats; FALSE when either is NaN
RLe(a, b) == ~IsNaN(a) /\ ~IsNaN(b) /\ a[1] * b[2] <= b[1] * a[2]

(* ------------------------ request generation -------------------------- *)

\* The amounts and categories a generated transaction list cycles through.
\* The first is the example of the specification (10, 5000, 12).
Palettes ==
  << [amounts |-> <<10, 5000, 12>>,
      categories |-> <<"Food & Dining", "Rent", "Food & Dining">>,
      income_category |-> "Salary"],
     [amounts |-> <<1000>>,
      categories |-> <<"Groceries">>,
      income_category |-> "Insurance"],
     [amounts |-> <<600, 200, 3500, 50>>,
      categories |-> <<"Entertainment", "Shopping", "Travel", "Utilities">>,
      income_category |-> "Salary"] >>

Cyc(s, j) == s[((j - 1) % Len(s)) + 1]

\* the j-th Expense of a list spread over D calendar days (days 1..D)
MkExpense(j, D, p) ==
  [ts |-> (1 + ((j - 1) % D)) * TicksPerDay + (((j - 1) \div D) % TicksPerDay),
   amount |-> Cyc(Palettes[p].amounts, j),
   type |-> "Expense",
   category |-> Cyc(Palettes[p].categories, j)]

\* the i-th Income: dated after every Expense, or on day 0 before them
MkIncome(i, D, p, incAfter) ==
  [ts |-> IF incAfter THEN (D + i) * TicksPerDay + 1 ELSE 0,
   amount |-> 8000,
   type |-> "Income",
   category |-> Palettes[p].income_category]

MkTxs(nExp, nInc, incAfter, D, p) ==
  LET exps == [j \in 1..nExp |-> MkExpense(j, D, p)]
      incs == [i \in 1..nInc |-> MkIncome(i, D, p, incAfter)]
  IN  IF incAfter THEN exps \o incs ELSE incs \o exps

(* ------------------------------- state -------------------------------- *)

VARIABLES
  pc,        \* the position of the handler serving the current request
  req,       \* the request being served
  loc,       \* the handler's local variables
  resp,      \* the outcome handed to the caller
  executed   \* the computation steps run for this request, in order

vars == <<pc, req, loc, resp, executed>>

NoReq == [endpoint |-> "none"]

NoLoc == [stage |-> "none"]

NoBody == [kind |-> "none"]

NoResp == [status |-> 0, detail |-> <<>>, body |-> NoBody]

Init ==
  /\ pc = "idle"
  /\ req = NoReq
  /\ loc = NoLoc
  /\ resp = NoResp
  /\ executed = <<>>

(* --------------------------- error handling --------------------------- *)

HTTPException(code, text) ==
  [type |-> "HTTPException", status_code |-> code, detail |-> text]

LibraryError(text) ==
  [type |-> "Exception", status_code |-> 0, detail |-> text]

\* str(e): an HTTPException prints as "<status_code>: <detail>"
StrOfException(e) ==
  IF e.type = "HTTPException" THEN <<e.status_code, e.detail>> ELSE <<e.detail>>

\* a handler that answers a failure with what had been built so far
ExceptHandlerKeepingPartial(e) ==
  [status |-> 500, detail |-> StrOfException(e), body |-> [kind |-> "partial"]]

\* `except Exception as e: raise HTTPException(status_code=500, detail=str(e))`
\* HTTPException is itself an Exception, so the handler also catches the 400
\* raised inside the try block.
ExceptHandler(e) ==
  [status |-> 500, detail |-> StrOfException(e), body |-> NoBody]

\* main.py:151, 222, 295, 304: the minimum-size checks
TooFewForClustering(txs) == txs = <<>> \/ Len(txs) < MinClusterTx

TooFewForAnomalies(txs) == txs = <<>> \/ Len(txs) < MinAnomalyTx

TooFewForForecast(txs) == txs = <<>> \/ Len(txs) < MinForecastTx

\* the Expense check letting a list of nine through
TooFewExpensesOffByOne(expenses) == Len(expenses) < MinExpenseTx - 1

TooFewExpenses(expenses) == Len(expenses) < MinExpenseTx

\* pd.DataFrame([...]); df['date'] = pd.to_datetime(df['date']): one row per
\* transaction, in request order (row i of the code is df[i + 1] here)
ToDataFrame(txs) == txs

DateOf(ts) == ts \div TicksPerDay

(* ----------------------- persona rule cascade -------------------------- *)

\* the first guard with `frequency > 5` required of both alternatives
LifestyleSpenderFrequentOnly(avg_amount, frequency, entertainment_ratio, top_cats) ==
  /\ \/ RGt(entertainment_ratio, 3, 10)
     \/ "Food & Dining" \in Range(top_cats)
  /\ RGt(frequency, 5, 1)
  /\ RGt(avg_amount, 500, 1)

\* main.py:826-864: the guards of the seven rules.  avg_amount, frequency and
\* the two ratios are floats; top_cats is the list of at most three names.
LifestyleSpender(avg_amount, frequency, entertainment_ratio, top_cats) ==
  /\ \/ RGt(entertainment_ratio, 3, 10)
     \/ ("Food & Dining" \in Range(top_cats) /\ RGt(frequency, 5, 1))
  /\ RGt(avg_amount, 500, 1)

ConsciousSaver(avg_amount, frequency, essentials_ratio) ==
  /\ RLt(avg_amount, 500, 1)
  /\ RGt(essentials_ratio, 6, 10)
  /\ RGt(frequency, 3, 1)

BigTicketBuyer(avg_amount, frequency) ==
  RGt(avg_amount, 3000, 1) /\ RLt(frequency, 2, 1)

BalancedSpender(avg_amount, entertainment_ratio, top_cats) ==
  /\ Len(top_cats) >= 3
  /\ RGt(avg_amount, 500, 1) /\ RLt(avg_amount, 3000, 1)
  /\ RGt(entertainment_ratio, 3, 10) /\ RLt(entertainment_ratio, 6, 10)

EssentialsFirst(avg_amount, essentials_ratio, entertainment_ratio) ==
  /\ RGt(essentials_ratio, 7, 10)
  /\ RLt(entertainment_ratio, 15, 100)
  /\ RLt(avg_amount, 2000, 1)

FrequentSmallSpender(avg_amount, frequency) ==
  RGt(frequency, 8, 1) /\ RLt(avg_amount, 1000, 1)

OccasionalHighSpender(avg_amount, frequency) ==
  RLt(frequency, 1, 1) /\ RGt(avg_amount, 2000, 1)

\* the cascade with the two fallback rules tried before Essentials-First
AssignPersonaLabelFallbacksFirst(avg_amount, frequency, essentials_ratio, entertainment_ratio, top_cats, dominant_cat) ==
  IF LifestyleSpender(avg_amount, frequency, entertainment_ratio, top_cats)
  THEN <<"Lifestyle Spender">>
  ELSE IF ConsciousSaver(avg_amount, frequency, essentials_ratio)
  THEN <<"Conscious Saver">>
  ELSE IF BigTicketBuyer(avg_amount, frequency)
  THEN <<"Big Ticket Buyer">>
  ELSE IF BalancedSpender(avg_amount, entertainment_ratio, top_cats)
  THEN <<"Balanced Spender">>
  ELSE IF FrequentSmallSpender(avg_amount, frequency)
  THEN <<"Frequent Small Spender">>
  ELSE IF OccasionalHighSpender(avg_amount, frequency)
  THEN <<"Occasional High Spender">>
  ELSE IF EssentialsFirst(avg_amount, essentials_ratio, entertainment_ratio)
  THEN <<"Essentials-First">>
  ELSE <<dominant_cat, "Focused">>

\* main.py:819-869: the first rule whose guard holds gives the label, <<name>>;
\* the fallback is <<dominant_cat, "Focused">>.  (The description is a string
\* formatted from the same inputs.)
AssignPersonaLabel(avg_amount, frequency, essentials_ratio, entertainment_ratio, top_cats, dominant_cat) ==
  IF LifestyleSpender(avg_amount, frequency, entertainment_ratio, top_cats)
  THEN <<"Lifestyle Spender">>
  ELSE IF ConsciousSaver(avg_amount, frequency, essentials_ratio)
  THEN <<"Conscious Saver">>
  ELSE IF BigTicketBuyer(avg_amount, frequency)
  THEN <<"Big Ticket Buyer">>
  ELSE IF BalancedSpender(avg_amount, entertainment_ratio, top_cats)
  THEN <<"Balanced Spender">>
  ELSE IF EssentialsFirst(avg_amount, essentials_ratio, entertainment_ratio)
  THEN <<"Essentials-First">>
  ELSE IF FrequentSmallSpender(avg_amount, frequency)
  THEN <<"Frequent Small Spender">>
  ELSE IF OccasionalHighSpender(avg_amount, frequency)
  THEN <<"Occasional High Spender">>
  ELSE <<dominant_cat, "Focused">>

(* ------------------------- cluster statistics ------------------------- *)

\* the distinct elements of s in order of first appearance
RECURSIVE Distinct(_)
Distinct(s) ==
  IF s = <<>> THEN <<>>
  ELSE LET r == Distinct(SubSeq(s, 1, Len(s) - 1))
           x == s[Len(s)]
       IN  IF x \in Range(r) THEN r ELSE Append(r, x)

CountOf(s, x) == Cardinality({i \in DOMAIN s : s[i] = x})

\* a stable sort of s by descending key, key[i] being the key of s[i]
\* (list.sort(reverse=True) keeps the order of equal keys; value_counts lists
\* equal counts in first-seen order)
StableSortDesc(s, key) ==
  LET n == Len(s)
      rank(i) == 1 + Cardinality({j \in 1..n :
                        \/ key[j] > key[i]
                        \/ (key[j] = key[i] /\ j < i)})
  IN  [q \in 1..n |-> s[CHOOSE i \in 1..n : rank(i) = q]]

\* cluster_df['category'].value_counts(): the categories by descending count
ValueCounts(cats) ==
  LET names == Distinct(cats)
  IN  StableSortDesc(names, [q \in DOMAIN names |-> CountOf(cats, names[q])])

\* main.py:794, 799
Essentials ==
  {"Food & Dining", "Groceries", "Utilities", "Transportation", "Healthcare",
   "Medical", "Insurance"}

Entertainment == {"Entertainment", "Shopping", "Travel", "Dining", "Subscriptions"}

\* main.py:766-817.  cluster_txs is the list of entries of the cluster, df the
\* whole table; the statistics are those handed to the rule cascade.
ClusterStats(cluster_txs, df) ==
  LET cluster_df == [q \in DOMAIN cluster_txs |-> df[cluster_txs[q].index + 1]]
      count == Len(cluster_txs)
      total == SumSeq([q \in DOMAIN cluster_df |-> cluster_df[q].amount])
      cats == [q \in DOMAIN cluster_df |-> cluster_df[q].category]
      vc == ValueCounts(cats)
      top == SubSeq(vc, 1, Min(3, Len(vc)))
      stamps == {cluster_df[q].ts : q \in DOMAIN cluster_df}
      date_range == (SetMax(stamps) - SetMin(stamps)) \div TicksPerDay
      expense_count ==
        Cardinality({q \in DOMAIN cluster_df : cluster_df[q].type = "Expense"})
      essentials_count ==
        Cardinality({q \in DOMAIN cluster_df : cluster_df[q].category \in Essentials})
      entertainment_count ==
        Cardinality({q \in DOMAIN cluster_df : cluster_df[q].category \in Entertainment})
  IN  [count |-> count,
       avg_amount |-> <<total, count>>,
       top_cat_names |-> top,
       dominant_category |-> IF top # <<>> THEN top[1] ELSE "Unknown",
       frequency |-> IF date_range > 0
                     THEN <<count * 30, Max(date_range, 1)>>
                     ELSE <<count, 1>>,
       expense_count |-> expense_count,
       expense_ratio |-> IF count > 0 THEN <<expense_count, count>> ELSE <<0, 1>>,
       essentials_ratio |-> IF expense_count > 0
                            THEN <<essentials_count, expense_count>>
                            ELSE <<0, 1>>,
       entertainment_ratio |-> IF expense_count > 0
                               THEN <<entertainment_count, expense_count>>
                               ELSE <<0, 1>>]

GenerateClusterPersona(cluster_id, cluster_txs, df) ==
  LET st == ClusterStats(cluster_txs, df)
  IN  [id |-> cluster_id,
       label |-> AssignPersonaLabel(st.avg_amount, st.frequency,
                                    st.essentials_ratio, st.entertainment_ratio,
                                    st.top_cat_names, st.dominant_category),
       count |-> st.count,
       avg_amount |-> st.avg_amount,
       top_categories |-> st.top_cat_names,
       transactions |-> cluster_txs]

(* ------------------------------ /cluster ------------------------------ *)

\* the values n_clusters takes in a request (the default is 5, main.py:40)
NClusterValues == {0, 1, 2, 3, 4, 5}

\* main.py:690-717: one feature row per transaction.  The four broadcast
\* columns are the same in every row; std_amount is kept exact as the variance
\* under the root, (n*sum(x^2) - sum(x)^2) / (n*(n-1)), and is NaN -> 0 for n = 1.
EngineerFeaturesForClustering(df) ==
  LET n == Len(df)
      amounts == [i \in 1..n |-> df[i].amount]
      total == SumSeq(amounts)
      cats == Distinct([i \in 1..n |-> df[i].category])
      category_map(c) == (CHOOSE q \in DOMAIN cats : cats[q] = c) - 1
      expenses == Cardinality({i \in 1..n : df[i].type = "Expense"})
  IN  [i \in 1..n |->
         [avg_amount |-> <<total, n>>,
          std_amount |-> IF n > 1
                         THEN <<"sqrt", n * SumSeq([j \in 1..n |-> amounts[j] * amounts[j]])
                                        - total * total, n * (n - 1)>>
                         ELSE <<"fillna", 0, 1>>,
          num_categories |-> Len(cats),
          expense_ratio |-> <<expenses, n>>,
          amount |-> df[i].amount,
          is_expense |-> IF df[i].type = "Expense" THEN 1 ELSE 0,
          category_id |-> category_map(df[i].category)]]

\* main.py:161-162
ClampClusters(rows, n_clusters) ==
  IF rows < n_clusters THEN Max(MinClusters, rows - 1) ELSE n_clusters

\* KMeans(n_clusters=k).fit_predict on `rows` samples raises unless
\* 1 <= k <= rows (scikit-learn's parameter and sample-count checks)
KMeansAccepts(rows, k) == k >= 1 /\ k <= rows

\* the labelings fit_predict may return: one label in 0..k-1 per row (the
\* index of the nearest centre), so rows with equal features get equal labels;
\* which cluster gets which label depends on the random initialisation
KMeansLabelings(features_df, k) ==
  {labels \in [DOMAIN features_df -> 0..(k - 1)] :
     \A i, j \in DOMAIN features_df :
       features_df[i] = features_df[j] => labels[i] = labels[j]}

\* the loop with `cluster_dict[key] = [entry]` in place of the append
RECURSIVE BuildClusterDictOverwriting(_, _, _, _)
BuildClusterDictOverwriting(labels, df, i, cluster_dict) ==
  IF i > Len(labels) THEN cluster_dict
  ELSE LET key == labels[i]
           d1 == IF key \in DOMAIN cluster_dict THEN cluster_dict
                 ELSE cluster_dict @@ (key :> <<>>)
           entry == [index |-> i - 1,
                     amount |-> df[i].amount,
                     category |-> df[i].category,
                     date |-> df[i].ts]
       IN  BuildClusterDictOverwriting(labels, df, i + 1,
                                       [d1 EXCEPT ![key] = <<entry>>])

\* main.py:173-183: the loop that fills cluster_dict, from row i (1-based)
RECURSIVE BuildClusterDict(_, _, _, _)
BuildClusterDict(labels, df, i, cluster_dict) ==
  IF i > Len(labels) THEN cluster_dict
  ELSE LET key == labels[i]
           d1 == IF key \in DOMAIN cluster_dict THEN cluster_dict
                 ELSE cluster_dict @@ (key :> <<>>)
           entry == [index |-> i - 1,
                     amount |-> df[i].amount,
                     category |-> df[i].category,
                     date |-> df[i].ts]
       IN  BuildClusterDict(labels, df, i + 1,
                            [d1 EXCEPT ![key] = Append(@, entry)])

\* sorted(S) for a set of integers
RECURSIVE SortedKeys(_)
SortedKeys(S) ==
  IF S = {} THEN <<>>
  ELSE LET m == SetMin(S) IN <<m>> \o SortedKeys(S \ {m})

\* main.py:186-189
BuildClusterList(cluster_dict, df) ==
  LET keys == SortedKeys(DOMAIN cluster_dict)
  IN  [q \in DOMAIN keys |->
         GenerateClusterPersona(keys[q], cluster_dict[keys[q]], df)]

(* ----------------------------- quantiles ------------------------------ *)

\* s in ascending order
SortAsc(s) ==
  LET n == Len(s)
      rank(i) == 1 + Cardinality({j \in 1..n :
                        s[j] < s[i] \/ (s[j] = s[i] /\ j < i)})
  IN  [q \in 1..n |-> s[CHOOSE i \in 1..n : rank(i) = q]]

\* Series.quantile(0.95), linear interpolation between the order statistics
\* around position 0.95 * (n - 1); NaN for an empty series.  A rational.
Quantile95(values) ==
  IF values = <<>> THEN NaN
  ELSE LET xs == SortAsc(values)
           h20 == 19 * (Len(xs) - 1)
           lo == (h20 \div 20) + 1
           r == h20 % 20
           hi == IF r = 0 THEN lo ELSE lo + 1
       IN  <<20 * xs[lo] + r * (xs[hi] - xs[lo]), 20>>

\* amount > q * n / d, FALSE when q is NaN
AboveQuantile(amount, q, n, d) ==
  IF IsNaN(q) THEN FALSE ELSE amount * q[2] * d > q[1] * n

(* ----------------------------- /anomalies ----------------------------- *)

\* the contamination values of a request, in tenths (the default is 0.1)
ContaminationValues == {0, 1}

\* score_samples values in hundredths (the library's scores are negative)
ScoreValues == {-70, -55, -45}

\* main.py:719-742: one feature row per transaction (log_amount and the
\* global z-score are functions of amount alone and are left out)
EngineerFeaturesForAnomaly(df) ==
  LET n == Len(df)
      same(i) == {j \in 1..n : df[j].category = df[i].category}
      cat_sum(i) == SumSeq([q \in 1..n |->
                       IF q \in same(i) THEN df[q].amount ELSE 0])
      cat_cnt(i) == Cardinality(same(i))
  IN  [i \in 1..n |->
         [amount |-> df[i].amount,
          category_deviation |-> <<df[i].amount * cat_cnt(i) - cat_sum(i),
                                   cat_sum(i) + cat_cnt(i)>>,
          is_income |-> IF df[i].type = "Income" THEN 1 ELSE 0,
          day_of_week |-> DateOf(df[i].ts) % 7]]

\* IsolationForest(contamination=c) accepts a float in (0, 0.5]
IsolationForestAccepts(c) == c > 0 /\ c <= 5

\* offset_ is a percentile of the fitted scores: it lies between the least
\* and the greatest of them
OffsetsOf(scores) ==
  {o \in ScoreValues : /\ \E i \in DOMAIN scores : scores[i] <= o
                       /\ \E i \in DOMAIN scores : o <= scores[i]}

\* predict() is -1 where score_samples() is below the fitted offset_
AnomalyLabels(scores, offset) ==
  [i \in DOMAIN scores |-> IF scores[i] < offset THEN -1 ELSE 1]

\* main.py:744-764: which explanation a flagged row gets
ExplainAnomaly(transaction, df) ==
  LET amount == transaction.amount
      similar == SelectSeq(df, LAMBDA t : t.category = transaction.category)
      total == SumSeq([q \in DOMAIN similar |-> similar[q].amount])
      cnt == Len(similar)
  IN  IF cnt > 1 /\ amount * cnt > total * 2
      THEN "above category average"
      ELSE IF cnt > 1 /\ amount * cnt * 2 < total
      THEN "unusually low"
      ELSE IF AboveQuantile(amount,
                            Quantile95([q \in DOMAIN df |-> df[q].amount]), 1, 1)
      THEN "Top 5% highest transaction by amount"
      ELSE "Unusual spending pattern detected"

\* main.py:246-247: np.where(anomaly_labels == -1)[0].tolist(), 0-based rows
AnomalyIndices(labels) ==
  LET hit == SelectSeq([i \in DOMAIN labels |-> i], LAMBDA i : labels[i] = -1)
  IN  [q \in DOMAIN hit |-> hit[q] - 1]

\* main.py:250
AnomalyScores(anomaly_indices, anomaly_scores) ==
  [q \in DOMAIN anomaly_indices |-> -anomaly_scores[anomaly_indices[q] + 1]]

\* the high-risk list left in index order (the sort of line 265 missing)
HighRiskUnsorted(anomaly_indices, anomaly_scores, df) ==
  [q \in DOMAIN anomaly_indices |->
     LET idx == anomaly_indices[q]
     IN  [index |-> idx,
          amount |-> df[idx + 1].amount,
          category |-> df[idx + 1].category,
          date |-> df[idx + 1].ts,
          anomaly_score |-> -anomaly_scores[idx + 1],
          reason |-> ExplainAnomaly(df[idx + 1], df)]]

\* main.py:253-265: the high-risk list, sorted by descending anomaly_score
HighRisk(anomaly_indices, anomaly_scores, df) ==
  LET entries == [q \in DOMAIN anomaly_indices |->
                    LET idx == anomaly_indices[q]
                    IN  [index |-> idx,
                         amount |-> df[idx + 1].amount,
                         category |-> df[idx + 1].category,
                         date |-> df[idx + 1].ts,
                         anomaly_score |-> -anomaly_scores[idx + 1],
                         reason |-> ExplainAnomaly(df[idx + 1], df)]]
  IN  StableSortDesc(entries, [q \in DOMAIN entries |-> entries[q].anomaly_score])

(* ------------------------------ /forecast ----------------------------- *)

\* the least integer square root, by Newton's iteration
RECURSIVE IsqrtFrom(_, _)
IsqrtFrom(n, x) ==
  LET y == (x + n \div x) \div 2
  IN  IF y >= x THEN x ELSE IsqrtFrom(n, y)

Isqrt(n) == IF n <= 0 THEN 0 ELSE IsqrtFrom(n, n)

\* main.py:308-310: the Expense amounts summed per calendar day, by date
DailyExpenses(expenses) ==
  LET days == SortedKeys({DateOf(expenses[q].ts) : q \in DOMAIN expenses})
  IN  [q \in DOMAIN days |->
         [date |-> days[q],
          amount |-> SumSeq([r \in DOMAIN expenses |->
                        IF DateOf(expenses[r].ts) = days[q]
                        THEN expenses[r].amount ELSE 0])]]

\* the daily totals in fixed point (units of 1/FP)
DailyAmounts(daily_expenses) ==
  [q \in DOMAIN daily_expenses |-> daily_expenses[q].amount * FP]

\* main.py:313
MeanDaily(daily_expenses) ==
  <<SumSeq([q \in DOMAIN daily_expenses |-> daily_expenses[q].amount]),
    Len(daily_expenses)>>

\* main.py:314: Series.std() (ddof = 1) is NaN for a single day; otherwise
\* the root of (n*sum(x^2) - sum(x)^2) / (n*(n-1)), rounded down to a unit
StdDaily(daily_expenses) ==
  LET n == Len(daily_expenses)
      total == SumSeq([q \in 1..n |-> daily_expenses[q].amount])
      squares == SumSeq([q \in 1..n |->
                    daily_expenses[q].amount * daily_expenses[q].amount])
  IN  IF n < 2 THEN NaN
      ELSE <<Isqrt((n * squares - total * total) \div (n * (n - 1))) * FP, FP>>

\* main.py:329: ewm(span, adjust=False).mean(), alpha = 2 / (span + 1)
RECURSIVE EwmMean(_, _)
EwmMean(xs, span) ==
  IF Len(xs) <= 1 THEN xs
  ELSE LET prev == EwmMean(SubSeq(xs, 1, Len(xs) - 1), span)
       IN  Append(prev, ((span - 1) * prev[Len(prev)] + 2 * xs[Len(xs)])
                        \div (span + 1))

\* np.polyfit(x, ys, 1)[0] for x = 0, 1, .., len(ys) - 1 (len(ys) >= 2): the
\* least-squares slope
PolyfitSlope(ys) ==
  LET n == Len(ys)
      sx == SumSeq([q \in 1..n |-> q - 1])
      sxx == SumSeq([q \in 1..n |-> (q - 1) * (q - 1)])
      sy == SumSeq(ys)
      sxy == SumSeq([q \in 1..n |-> (q - 1) * ys[q]])
  IN  (n * sxy - sx * sy) \div (n * sxx - sx * sx)

LastN(s, k) == SubSeq(s, Max(1, Len(s) - k + 1), Len(s))

\* the trend fitted to whatever smoothed values there are, without the
\* requirement of a full window
TrendCoefAnyLength(ema_val, y) ==
  IF Len(ema_val) >= 2 THEN PolyfitSlope(LastN(ema_val, TrendWindow)) ELSE 0

\* main.py:349-353
TrendCoef(ema_val, y) ==
  IF Len(ema_val) >= TrendWindow
  THEN PolyfitSlope(LastN(ema_val, TrendWindow))
  ELSE IF Len(y) >= TrendWindow THEN PolyfitSlope(LastN(y, TrendWindow)) ELSE 0

\* main.py:333-346: the factor of each weekday 0..6 (Monday = 0), in 1/FP
SeasonalFactors(daily_expenses) ==
  IF Len(daily_expenses) >= SeasonalityDays
  THEN LET on(d) == {q \in DOMAIN daily_expenses : daily_expenses[q].date % 7 = d}
           present == {d \in 0..6 : on(d) # {}}
           weekly_avg(d) ==
             SumSeq([q \in DOMAIN daily_expenses |->
                IF q \in on(d) THEN daily_expenses[q].amount * FP ELSE 0])
             \div Cardinality(on(d))
           weekly_mean ==
             SumSeq([q \in 1..7 |-> IF (q - 1) \in present THEN weekly_avg(q - 1) ELSE 0])
             \div Cardinality(present)
       IN  [d \in 0..6 |->
              IF d \in present /\ weekly_mean > 0
              THEN (weekly_avg(d) * FP) \div weekly_mean
              ELSE FP]
  ELSE [d \in 0..6 |-> FP]

\* the confidence without the cap of 0.95
ConfidenceUncapped(i, N, days) ==
  <<Max(60 * N, 100 * N - 30 * i) + (IF days >= SeasonalityDays THEN 10 * N ELSE 0),
    100 * N>>

\* main.py:370-372: the confidence of day i of N, as the float
\* <<numerator, 100 * N>>
Confidence(i, N, days) ==
  LET base == Max(60 * N, 100 * N - 30 * i)
      boost == IF days >= SeasonalityDays THEN 10 * N ELSE 0
  IN  <<Min(95 * N, base + boost), 100 * N>>

\* main.py:375: std_daily * (1 - confidence) * 1.5, NaN when std_daily is
ConfidenceInterval(std_daily, confidence) ==
  IF IsNaN(std_daily) THEN NaN
  ELSE <<(std_daily[1] * (confidence[2] - confidence[1]) * 3)
           \div (confidence[2] * 2), FP>>

\* main.py:381: max(0, predicted - confidence_interval); Python's max returns
\* its first argument, 0, when the second is NaN
RangeLow(predicted, interval) ==
  IF IsNaN(interval) THEN <<0, FP>> ELSE <<Max(0, predicted - interval[1]), FP>>

\* main.py:382
RangeHigh(predicted, interval) ==
  IF IsNaN(interval) THEN NaN ELSE <<predicted + interval[1], FP>>

\* the dates counted from the last day of history itself
ForecastDateFromLastDay(last_date, i) == last_date + i - 1

\* main.py:357: last_date + timedelta(days=i)
ForecastDate(last_date, i) == last_date + i

\* main.py:357-384: the forecast point of day i
ForecastPoint(i, N, last_date, current_ema, trend_coef, seasonal_factors, std_daily, days) ==
  LET forecast_date == ForecastDate(last_date, i)
      day_of_week == forecast_date % 7
      ema_forecast == Max(0, current_ema + trend_coef * i)
      predicted == Max(MinDailySpend * FP,
                       (ema_forecast * seasonal_factors[day_of_week]) \div FP)
      confidence == Confidence(i, N, days)
      interval == ConfidenceInterval(std_daily, confidence)
  IN  [date |-> forecast_date,
       predicted_expense |-> <<predicted, FP>>,
       confidence |-> confidence,
       range_low |-> RangeLow(predicted, interval),
       range_high |-> RangeHigh(predicted, interval),
       seasonal_day |-> day_of_week]

\* main.py:387-395
TrendLabel(trend_coef, std_daily) ==
  IF ~IsNaN(std_daily) /\ trend_coef * 10 > std_daily[1] THEN "increasing"
  ELSE IF ~IsNaN(std_daily) /\ trend_coef * 10 < -std_daily[1] THEN "decreasing"
  ELSE "stable"

ReceiveCluster ==
  /\ pc = "idle"
  /\ \E n \in 0..MaxClusterTx, nInc \in 0..1, D \in {1, 3}, p \in DOMAIN Palettes,
        k \in NClusterValues :
       /\ nInc <= n
       /\ req' = [endpoint |-> "cluster",
                  transactions |-> MkTxs(n - nInc, nInc, TRUE, D, p),
                  n_clusters |-> k]
  /\ pc' = "c_validate"
  /\ UNCHANGED <<loc, resp, executed>>

\* main.py:151-156
ClusterValidate ==
  /\ pc = "c_validate"
  /\ IF TooFewForClustering(req.transactions)
     THEN /\ resp' = ExceptHandler(
                 HTTPException(400, "Need at least 3 transactions for clustering"))
          /\ pc' = "done"
          /\ UNCHANGED <<loc, executed>>
     ELSE /\ loc' = [stage |-> "cluster",
                     df |-> ToDataFrame(req.transactions),
                     n_clusters |-> req.n_clusters]
          /\ executed' = Append(executed, "to_dataframe")
          /\ pc' = "c_features"
          /\ UNCHANGED resp
  /\ UNCHANGED req

\* main.py:159-162
ClusterFeatures ==
  /\ pc = "c_features"
  /\ LET features_df == EngineerFeaturesForClustering(loc.df)
     IN  loc' = [stage |-> "cluster",
                 df |-> loc.df,
                 features_df |-> features_df,
                 n_clusters |-> ClampClusters(Len(features_df), loc.n_clusters)]
  /\ executed' = Append(executed, "feature_engineering")
  /\ pc' = "c_fit"
  /\ UNCHANGED <<req, resp>>

\* main.py:165-170
ClusterFit ==
  /\ pc = "c_fit"
  /\ executed' = executed \o <<"scaling", "model_fitting">>
  /\ IF KMeansAccepts(Len(loc.features_df), loc.n_clusters)
     THEN /\ \E labels \in KMeansLabelings(loc.features_df, loc.n_clusters) :
               loc' = [stage |-> "cluster",
                       df |-> loc.df,
                       n_clusters |-> loc.n_clusters,
                       clusters |-> labels]
          /\ pc' = "c_build"
          /\ UNCHANGED resp
     ELSE /\ resp' = ExceptHandler(LibraryError("KMeans rejects n_clusters"))
          /\ pc' = "done"
          /\ UNCHANGED loc
  /\ UNCHANGED req

\* main.py:173-207
ClusterBuild ==
  /\ pc = "c_build"
  /\ LET cluster_dict == BuildClusterDict(loc.clusters, loc.df, 1, <<>>)
         cluster_list == BuildClusterList(cluster_dict, loc.df)
         largest == SetMax({Len(cluster_dict[key]) : key \in DOMAIN cluster_dict})
     IN  resp' = [status |-> 200,
                  detail |-> <<>>,
                  body |-> [kind |-> "clusters",
                            clusters |-> cluster_list,
                            summary |-> [identified |-> loc.n_clusters,
                                         largest |-> largest]]]
  /\ executed' = Append(executed, "build_response")
  /\ pc' = "done"
  /\ UNCHANGED <<req, loc>>

ReceiveAnomalies ==
  /\ pc = "idle"
  /\ \E n \in 0..MaxAnomalyTx, p \in DOMAIN Palettes, c \in ContaminationValues :
       req' = [endpoint |-> "anomalies",
               transactions |-> MkTxs(n, 0, TRUE, 2, p),
               contamination |-> c]
  /\ pc' = "a_validate"
  /\ UNCHANGED <<loc, resp, executed>>

\* main.py:222-227
AnomalyValidate ==
  /\ pc = "a_validate"
  /\ IF TooFewForAnomalies(req.transactions)
     THEN /\ resp' = ExceptHandler(
                 HTTPException(400, "Need at least 5 transactions for anomaly detection"))
          /\ pc' = "done"
          /\ UNCHANGED <<loc, executed>>
     ELSE /\ loc' = [stage |-> "anomalies", df |-> ToDataFrame(req.transactions)]
          /\ executed' = Append(executed, "to_dataframe")
          /\ pc' = "a_features"
          /\ UNCHANGED resp
  /\ UNCHANGED req

\* main.py:230
AnomalyFeatures ==
  /\ pc = "a_features"
  /\ loc' = [stage |-> "anomalies",
             df |-> loc.df,
             features_df |-> EngineerFeaturesForAnomaly(loc.df)]
  /\ executed' = Append(executed, "feature_engineering")
  /\ pc' = "a_fit"
  /\ UNCHANGED <<req, resp>>

\* main.py:233-243
AnomalyFit ==
  /\ pc = "a_fit"
  /\ executed' = executed \o <<"scaling", "model_fitting">>
  /\ IF IsolationForestAccepts(req.contamination)
     THEN /\ \E scores \in [1..Len(loc.features_df) -> ScoreValues] :
             \E offset \in OffsetsOf(scores) :
               loc' = [stage |-> "anomalies",
                       df |-> loc.df,
                       anomaly_labels |-> AnomalyLabels(scores, offset),
                       anomaly_scores |-> scores]
          /\ pc' = "a_build"
          /\ UNCHANGED resp
     ELSE /\ resp' = ExceptHandler(LibraryError("IsolationForest rejects contamination"))
          /\ pc' = "done"
          /\ UNCHANGED loc
  /\ UNCHANGED req

\* main.py:246-280
AnomalyBuild ==
  /\ pc = "a_build"
  /\ LET anomaly_indices == AnomalyIndices(loc.anomaly_labels)
         high_risk == HighRisk(anomaly_indices, loc.anomaly_scores, loc.df)
     IN  resp' = [status |-> 200,
                  detail |-> <<>>,
                  body |-> [kind |-> "anomalies",
                            anomalies |-> anomaly_indices,
                            scores |-> AnomalyScores(anomaly_indices, loc.anomaly_scores),
                            high_risk_transactions |-> high_risk,
                            summary |-> [detected |-> Len(anomaly_indices),
                                         of_total |-> Len(loc.df)]]]
  /\ executed' = Append(executed, "build_response")
  /\ pc' = "done"
  /\ UNCHANGED <<req, loc>>

ReceiveForecast ==
  /\ pc = "idle"
  /\ \E nExp \in {0} \cup (8..MaxForecastTx), nInc \in 0..2, incAfter \in BOOLEAN,
        D \in {1, 2, 6, 7, 14}, p \in {2, 3}, N \in (-1)..MaxForecastDays :
       req' = [endpoint |-> "forecast",
               transactions |-> MkTxs(nExp, nInc, incAfter, D, p),
               forecast_days |-> N]
  /\ pc' = "f_validate"
  /\ UNCHANGED <<loc, resp, executed>>

\* main.py:295-305
ForecastValidate ==
  /\ pc = "f_validate"
  /\ IF TooFewForForecast(req.transactions)
     THEN /\ resp' = ExceptHandler(
                 HTTPException(400, "Need at least 10 transactions for forecasting"))
          /\ pc' = "done"
          /\ UNCHANGED <<loc, executed>>
     ELSE LET df == ToDataFrame(req.transactions)
              expenses == SelectSeq(df, LAMBDA t : t.type = "Expense")
          IN  /\ executed' = Append(executed, "to_dataframe")
              /\ IF TooFewExpenses(expenses)
                 THEN /\ resp' = ExceptHandler(
                             HTTPException(400, "Need at least 10 expense transactions"))
                      /\ pc' = "done"
                      /\ UNCHANGED loc
                 ELSE /\ loc' = [stage |-> "forecast", expenses |-> expenses]
                      /\ pc' = "f_aggregate"
                      /\ UNCHANGED resp
  /\ UNCHANGED req

\* main.py:308-314
ForecastAggregate ==
  /\ pc = "f_aggregate"
  /\ LET daily_expenses == DailyExpenses(loc.expenses)
     IN  loc' = [stage |-> "forecast",
                 daily_expenses |-> daily_expenses,
                 mean_daily |-> MeanDaily(daily_expenses),
                 std_daily |-> StdDaily(daily_expenses)]
  /\ executed' = Append(executed, "aggregate")
  /\ pc' = "f_trend"
  /\ UNCHANGED <<req, resp>>

\* main.py:317-353.  The first polyfit (line 321) is given a single point when
\* all expenses fall on one day: numpy then divides the Vandermonde column of
\* zeros by its zero norm, and its least-squares solver either reports no
\* convergence (LinAlgError) or returns NaN coefficients, depending on the
\* LAPACK build.  Its result is overwritten at lines 349-353.
ForecastTrend ==
  /\ pc = "f_trend"
  /\ executed' = Append(executed, "model_fitting")
  /\ \/ /\ Len(loc.daily_expenses) = 1
        /\ resp' = ExceptHandler(LibraryError("SVD did not converge"))
        /\ pc' = "done"
        /\ UNCHANGED loc
     \/ /\ LET y == DailyAmounts(loc.daily_expenses)
               ema_val == EwmMean(y, Min(TrendWindow, Len(y)))
           IN  loc' = [stage |-> "forecast",
                       daily_expenses |-> loc.daily_expenses,
                       mean_daily |-> loc.mean_daily,
                       std_daily |-> loc.std_daily,
                       last_date |-> SetMax({loc.daily_expenses[q].date :
                                               q \in DOMAIN loc.daily_expenses}),
                       current_ema |-> ema_val[Len(ema_val)],
                       seasonal_factors |-> SeasonalFactors(loc.daily_expenses),
                       trend_coef |-> TrendCoef(ema_val, y)]
        /\ pc' = "f_build"
        /\ UNCHANGED resp
  /\ UNCHANGED req

\* main.py:356-409
ForecastBuild ==
  /\ pc = "f_build"
  /\ LET N == req.forecast_days
         forecast == [i \in 1..N |->
                        ForecastPoint(i, N, loc.last_date, loc.current_ema,
                                      loc.trend_coef, loc.seasonal_factors,
                                      loc.std_daily, Len(loc.daily_expenses))]
     IN  resp' = [status |-> 200,
                  detail |-> <<>>,
                  body |-> [kind |-> "forecast",
                            forecast |-> forecast,
                            trend |-> TrendLabel(loc.trend_coef, loc.std_daily),
                            summary |-> [days_of_history |-> Len(loc.daily_expenses),
                                         mean_daily |-> loc.mean_daily]]]
  /\ executed' = Append(executed, "forecast")
  /\ pc' = "done"
  /\ UNCHANGED <<req, loc>>

\* the request is over; nothing of it outlives the call
Finish ==
  /\ pc = "done"
  /\ pc' = "idle"
  /\ req' = NoReq
  /\ loc' = NoLoc
  /\ resp' = NoResp
  /\ executed' = <<>>

Next ==
  \/ ReceiveCluster
  \/ ClusterValidate
  \/ ClusterFeatures
  \/ ClusterFit
  \/ ClusterBuild
  \/ ReceiveAnomalies
  \/ AnomalyValidate
  \/ AnomalyFeatures
  \/ AnomalyFit
  \/ AnomalyBuild
  \/ ReceiveForecast
  \/ ForecastValidate
  \/ ForecastAggregate
  \/ ForecastTrend
  \/ ForecastBuild
  \/ Finish

Spec == Init /\ [][Next]_vars

(* -------------------------- /score-transaction ------------------------ *)

\* the historical transactions a scoring request is built from
HistPool ==
  {[ts |-> 2, amount |-> a, type |-> "Expense", category |-> c] :
      a \in {10, 20, 100}, c \in {"Food", "Rent"}}
  \cup {[ts |-> 4, amount |-> 100, type |-> "Income", category |-> "Food"]}

\* the amounts of the new transaction
NewAmounts == {0, 5, 15, 20, 30, 50, 100, 150, 300}

Histories == UNION {[1..n -> HistPool] : n \in 0..MaxHist}

\* the category part with the increments of z > 3 and z > 2 exchanged
CategoryScoreSwapped(amount, category, hist_df) ==
  LET cat_txs == SelectSeq(hist_df, LAMBDA t : t.category = category)
      n == Len(cat_txs)
      S == SumSeq([q \in 1..n |-> cat_txs[q].amount])
      V == n * SumSeq([q \in 1..n |-> cat_txs[q].amount * cat_txs[q].amount]) - S * S
      dev2 == (n * amount - S) * (n * amount - S) * (n - 1)
  IN  IF n > 0
      THEN IF n > 1 /\ V > 0
           THEN IF dev2 > 9 * n * V THEN 30
                ELSE IF dev2 > 4 * n * V THEN 60
                ELSE 0
           ELSE IF amount * n > S * 2 THEN 40 ELSE 0
      ELSE 20

\* main.py:449-468: the part of the score given by the category's history, in
\* hundredths.  With n same-category amounts of sum S and V = n*sum(x^2) - S^2,
\* mean = S/n and std^2 = V / (n*(n-1)); std > 0 is V > 0 with n > 1 (std is
\* NaN for n = 1), and z > c is (n*a - S)^2 * (n-1) > c^2 * n * V.
CategoryScore(amount, category, hist_df) ==
  LET cat_txs == SelectSeq(hist_df, LAMBDA t : t.category = category)
      n == Len(cat_txs)
      S == SumSeq([q \in 1..n |-> cat_txs[q].amount])
      V == n * SumSeq([q \in 1..n |-> cat_txs[q].amount * cat_txs[q].amount]) - S * S
      dev2 == (n * amount - S) * (n * amount - S) * (n - 1)
  IN  IF n > 0
      THEN IF n > 1 /\ V > 0
           THEN IF dev2 > 9 * n * V THEN 60
                ELSE IF dev2 > 4 * n * V THEN 30
                ELSE 0
           ELSE IF amount * n > S * 2 THEN 40 ELSE 0
      ELSE 20

\* main.py:471-479: the part given by the Expense-only 95th percentile
OverallScore(amount, hist_df) ==
  LET expenses == SelectSeq(hist_df, LAMBDA t : t.type = "Expense")
      overall_q95 == Quantile95([q \in DOMAIN expenses |-> expenses[q].amount])
  IN  IF AboveQuantile(amount, overall_q95, 3, 2) THEN 30
      ELSE IF AboveQuantile(amount, overall_q95, 1, 1) THEN 15
      ELSE 0

\* the risk level with the boundaries 0.6 and 0.3 excluded
RiskLevelStrict(score) ==
  IF score > 60 THEN "high" ELSE IF score > 30 THEN "medium" ELSE "low"

\* main.py:485-490
RiskLevel(score) ==
  IF score >= 60 THEN "high" ELSE IF score >= 30 THEN "medium" ELSE "low"

\* the scorer without the early return for an empty history
ScoreSingleTransactionNoEmptyCheck(new_tx, historical_transactions) ==
  LET hist_df == ToDataFrame(historical_transactions)
      raw == CategoryScore(new_tx.amount, new_tx.category, hist_df)
             + OverallScore(new_tx.amount, hist_df)
      score == Min(100, raw)
  IN  [anomaly_score |-> score,
       is_anomaly |-> score > 50,
       reason |-> IF raw = 0 THEN "Normal spending pattern" ELSE "reasons",
       risk_level |-> RiskLevel(score)]

\* main.py:424-500: the response of /score-transaction, the score in hundredths
ScoreSingleTransaction(new_tx, historical_transactions) ==
  IF historical_transactions = <<>>
  THEN [anomaly_score |-> 0,
        is_anomaly |-> FALSE,
        reason |-> "Not enough historical data to assess",
        risk_level |-> "low"]
  ELSE LET hist_df == ToDataFrame(historical_transactions)
           raw == CategoryScore(new_tx.amount, new_tx.category, hist_df)
                  + OverallScore(new_tx.amount, hist_df)
           score == Min(100, raw)
       IN  [anomaly_score |-> score,
            is_anomaly |-> score > 50,
            reason |-> IF raw = 0 THEN "Normal spending pattern" ELSE "reasons",
            risk_level |-> RiskLevel(score)]

InitScore ==
  /\ pc = "s_start"
  /\ req \in {[endpoint |-> "score",
               new_transaction |-> [ts |-> 6, amount |-> a, type |-> t,
                                    category |-> c],
               historical_transactions |-> h] :
                 a \in NewAmounts, t \in {"Expense", "Income"},
                 c \in {"Food", "Rent"}, h \in Histories}
  /\ loc = NoLoc
  /\ resp = NoResp
  /\ executed = <<>>

ScoreTransaction ==
  /\ pc = "s_start"
  /\ resp' = [status |-> 200,
              detail |-> <<>>,
              body |-> [kind |-> "score"] @@
                       ScoreSingleTransaction(req.new_transaction,
                                              req.historical_transactions)]
  /\ pc' = "done"
  /\ UNCHANGED <<req, loc, executed>>

NextScore == ScoreTransaction

SpecScore == InitScore /\ [][NextScore]_vars

(* --------------------------- persona cascade -------------------------- *)

\* inputs on both sides of every threshold of the cascade, and on it
AvgAmounts ==
  {<<a, 1>> : a \in {499, 500, 750, 1000, 1500, 2000, 2500, 3000, 3500}}

Frequencies == {<<f, 2>> : f \in {1, 2, 3, 4, 6, 8, 10, 12, 16, 18}}

EssentialsRatios == {<<0, 1>>, <<3, 5>>, <<13, 20>>, <<7, 10>>, <<4, 5>>, <<3, 2>>}

EntertainmentRatios ==
  {<<0, 1>>, <<3, 20>>, <<1, 5>>, <<3, 10>>, <<2, 5>>, <<3, 5>>, <<4, 5>>}

TopCategoryLists ==
  {<<>>, <<"Food & Dining">>, <<"Rent">>,
   <<"Rent", "Food & Dining", "Shopping">>, <<"Rent", "Travel", "Shopping">>}

InitPersona ==
  /\ pc = "p_start"
  /\ req \in {[endpoint |-> "persona",
               avg_amount |-> a,
               frequency |-> f,
               essentials_ratio |-> es,
               entertainment_ratio |-> en,
               top_cats |-> tc,
               dominant_cat |-> IF tc # <<>> THEN tc[1] ELSE "Unknown"] :
                 a \in AvgAmounts, f \in Frequencies, es \in EssentialsRatios,
                 en \in EntertainmentRatios, tc \in TopCategoryLists}
  /\ loc = NoLoc
  /\ resp = NoResp
  /\ executed = <<>>

AssignPersona ==
  /\ pc = "p_start"
  /\ resp' = [status |-> 200,
              detail |-> <<>>,
              body |-> [kind |-> "persona",
                        label |-> AssignPersonaLabel(
                                    req.avg_amount, req.frequency,
                                    req.essentials_ratio, req.entertainment_ratio,
                                    req.top_cats, req.dominant_cat)]]
  /\ pc' = "done"
  /\ UNCHANGED <<req, loc, executed>>

NextPersona == AssignPersona

SpecPersona == InitPersona /\ [][NextPersona]_vars

(* -------------------------- confidence curve -------------------------- *)

\* main.py:356, 370-372: the confidences of the points 1..N of one forecast
\* built on `days` days of history
InitConfidence ==
  /\ pc = "k_start"
  /\ req \in {[endpoint |-> "confidence", forecast_days |-> N, days |-> d] :
                 N \in 1..MaxHorizon, d \in 1..MaxHistoryDays}
  /\ loc = NoLoc
  /\ resp = NoResp
  /\ executed = <<>>

ConfidenceCurve ==
  /\ pc = "k_start"
  /\ resp' = [status |-> 200,
              detail |-> <<>>,
              body |-> [kind |-> "confidence",
                        confidences |-> [i \in 1..req.forecast_days |->
                           Confidence(i, req.forecast_days, req.days)]]]
  /\ pc' = "done"
  /\ UNCHANGED <<req, loc, executed>>

NextConfidence == ConfidenceCurve

SpecConfidence == InitConfidence /\ [][NextConfidence]_vars

(* ============================== claims =============================== *)

Serving(endpoint) == req.endpoint = endpoint

Answered(endpoint) == pc = "done" /\ req.endpoint = endpoint

Succeeded(endpoint) == Answered(endpoint) /\ resp.status = 200

ExpenseCount(txs) == Cardinality({i \in DOMAIN txs : txs[i].type = "Expense"})

\* the request in hand is below the minimum size of its engine
BelowMinimum ==
  \/ Serving("cluster") /\ Len(req.transactions) < 3
  \/ Serving("anomalies") /\ Len(req.transactions) < 5
  \/ Serving("forecast")
       /\ (Len(req.transactions) < 10 \/ ExpenseCount(req.transactions) < 10)

\* the handler still stands at its size check
AtValidation == pc \in {"c_validate", "a_validate", "f_validate"}

ComputationSteps ==
  {"feature_engineering", "scaling", "model_fitting", "aggregate", "forecast",
   "build_response"}

\* C1: a request below its engine's minimum size (3 for /cluster, 5 for
\* /anomalies, 10 transactions or 10 Expense transactions for /forecast) never
\* gets past the size check: it is answered with a failure carrying no result,
\* and no feature-engineering, scaling, fitting, aggregation or forecast step
\* has run for it.
C1_RejectedBeforeComputation ==
  BelowMinimum =>
    /\ AtValidation \/ pc = "done"
    /\ Range(executed) \cap ComputationSteps = {}
    /\ pc = "done" => resp.status >= 400 /\ resp.body = NoBody

\* C1 witness: a /forecast request of at least 10 transactions, fewer than 10
\* of them Expense, has been rejected.
C1_Witness ==
  /\ Answered("forecast")
  /\ Len(req.transactions) >= 10
  /\ ExpenseCount(req.transactions) < 10
  /\ resp.status >= 400

\* C2: a below-minimum request is answered with status 400 (the validation
\* failure), not with the 500 of a computation failure.
C2_BelowMinimumIs400 ==
  (pc = "done" /\ BelowMinimum) => resp.status = 400

(* claims about /score-transaction, under SpecScore *)

\* the amounts of the history in the new transaction's category
SameCategoryAmounts ==
  LET h == req.historical_transactions
      idx == SelectSeq([i \in DOMAIN h |-> i],
                       LAMBDA i : h[i].category = req.new_transaction.category)
  IN  [q \in DOMAIN idx |-> h[idx[q]].amount]

\* the score the same history gives the new transaction with amount a
ScoreAt(a) ==
  ScoreSingleTransaction([req.new_transaction EXCEPT !.amount = a],
                         req.historical_transactions).anomaly_score

\* the candidate amount is not below the mean of its category's history, or
\* that history has no positive standard deviation (fewer than two entries,
\* or all equal)
NotBelowCategoryMean ==
  LET xs == SameCategoryAmounts
      n == Len(xs)
      S == SumSeq(xs)
  IN  \/ n <= 1
      \/ \A q \in 1..n : xs[q] = xs[1]
      \/ n * req.new_transaction.amount >= S

\* C3 as stated: for a fixed history and category the score never decreases
\* when the candidate amount increases.
C3_ScoreMonotonic ==
  pc = "done" =>
    \A a2 \in NewAmounts :
      a2 > req.new_transaction.amount => resp.body.anomaly_score <= ScoreAt(a2)

\* C3 amended: the score never decreases when the candidate amount increases
\* from an amount that is not below the category mean (or whose category
\* history has no positive standard deviation).
C3_ScoreMonotonicAboveMean ==
  (pc = "done" /\ NotBelowCategoryMean) =>
    \A a2 \in NewAmounts :
      a2 > req.new_transaction.amount => resp.body.anomaly_score <= ScoreAt(a2)

\* C3 witness: an amount at or above the mean of a category history of
\* positive deviation scored above 0, with a larger amount scoring higher.
C3_Witness ==
  /\ pc = "done"
  /\ Len(SameCategoryAmounts) >= 2
  /\ \E q \in DOMAIN SameCategoryAmounts : SameCategoryAmounts[q] # SameCategoryAmounts[1]
  /\ Len(SameCategoryAmounts) * req.new_transaction.amount >= SumSeq(SameCategoryAmounts)
  /\ resp.body.anomaly_score > 0
  /\ \E a2 \in NewAmounts :
       a2 > req.new_transaction.amount /\ ScoreAt(a2) > resp.body.anomaly_score

(* claims about /cluster, under Spec *)

ClusterIndexSeq(c) == [q \in DOMAIN c.transactions |-> c.transactions[q].index]

ClusterIndices(c) == Range(ClusterIndexSeq(c))

\* C4: in a successful /cluster response over n transactions the index sets
\* of the clusters are pairwise disjoint, list no index twice and together
\* are exactly 0..n-1.
C4_ClustersPartitionIndices ==
  Succeeded("cluster") =>
    LET cl == resp.body.clusters
        n == Len(req.transactions)
    IN  /\ \A q \in DOMAIN cl :
             Cardinality(ClusterIndices(cl[q])) = Len(cl[q].transactions)
        /\ \A q, r \in DOMAIN cl :
             q # r => ClusterIndices(cl[q]) \cap ClusterIndices(cl[r]) = {}
        /\ UNION {ClusterIndices(cl[q]) : q \in DOMAIN cl} = 0..(n - 1)

\* C4 witness: a successful response with at least two clusters, one of them
\* holding several transactions.
C4_Witness ==
  /\ Succeeded("cluster")
  /\ Len(resp.body.clusters) >= 2
  /\ \E q \in DOMAIN resp.body.clusters : Len(resp.body.clusters[q].transactions) >= 2

\* C5: the ids of the returned clusters are positions in the order of first
\* appearance: they are 0..m-1 in ascending order, and the cluster holding
\* transaction 0 has id 0.
C5_IdsByFirstAppearance ==
  Succeeded("cluster") =>
    LET cl == resp.body.clusters
    IN  /\ \A q \in DOMAIN cl : cl[q].id = q - 1
        /\ \A q \in DOMAIN cl : 0 \in ClusterIndices(cl[q]) => cl[q].id = 0

\* C6: the cluster count handed to the clustering algorithm (for a request of
\* at least 3 rows) is at least 2 and at most row_count - 1, a requested count
\* above row_count - 1 being replaced by max(2, row_count - 1).  Stated for the
\* requests that ask for at least 2 clusters (a request for fewer is handed on
\* unchanged and breaks the lower bound as well).
C6_ClusterCountInRange ==
  (Serving("cluster") /\ pc = "c_fit" /\ req.n_clusters >= 2) =>
    LET rows == Len(req.transactions)
    IN  /\ loc.n_clusters >= 2
        /\ loc.n_clusters <= rows - 1
        /\ req.n_clusters > rows - 1 =>
             loc.n_clusters = (IF rows - 1 > 2 THEN rows - 1 ELSE 2)

(* claims about the persona cascade, under SpecPersona *)

PersonaLabel == resp.body.label

\* C7: the label is that of the first rule, in the order Lifestyle Spender,
\* Conscious Saver, Big Ticket Buyer, Balanced Spender, Essentials-First,
\* Frequent Small Spender, Occasional High Spender, whose guard holds, and
\* "<dominant category> Focused" exactly when no guard holds.
C7_FirstMatchCascade ==
  pc = "done" =>
    LET avg == req.avg_amount
        freq == req.frequency
        ess == req.essentials_ratio
        ent == req.entertainment_ratio
        food == \E q \in DOMAIN req.top_cats : req.top_cats[q] = "Food & Dining"
        g1 == (ent[1] * 10 > 3 * ent[2] \/ (food /\ freq[1] > 5 * freq[2]))
              /\ avg[1] > 500 * avg[2]
        g2 == avg[1] < 500 * avg[2] /\ ess[1] * 10 > 6 * ess[2]
              /\ freq[1] > 3 * freq[2]
        g3 == avg[1] > 3000 * avg[2] /\ freq[1] < 2 * freq[2]
        g4 == Len(req.top_cats) >= 3
              /\ avg[1] > 500 * avg[2] /\ avg[1] < 3000 * avg[2]
              /\ ent[1] * 10 > 3 * ent[2] /\ ent[1] * 10 < 6 * ent[2]
        g5 == ess[1] * 10 > 7 * ess[2] /\ ent[1] * 100 < 15 * ent[2]
              /\ avg[1] < 2000 * avg[2]
        g6 == freq[1] > 8 * freq[2] /\ avg[1] < 1000 * avg[2]
        g7 == freq[1] < freq[2] /\ avg[1] > 2000 * avg[2]
    IN  /\ PersonaLabel = <<"Lifestyle Spender">> <=> g1
        /\ PersonaLabel = <<"Conscious Saver">> <=> ~g1 /\ g2
        /\ PersonaLabel = <<"Big Ticket Buyer">> <=> ~g1 /\ ~g2 /\ g3
        /\ PersonaLabel = <<"Balanced Spender">> <=> ~g1 /\ ~g2 /\ ~g3 /\ g4
        /\ PersonaLabel = <<"Essentials-First">> <=> ~g1 /\ ~g2 /\ ~g3 /\ ~g4 /\ g5
        /\ PersonaLabel = <<"Frequent Small Spender">>
             <=> ~g1 /\ ~g2 /\ ~g3 /\ ~g4 /\ ~g5 /\ g6
        /\ PersonaLabel = <<"Occasional High Spender">>
             <=> ~g1 /\ ~g2 /\ ~g3 /\ ~g4 /\ ~g5 /\ ~g6 /\ g7
        /\ PersonaLabel = <<req.dominant_cat, "Focused">>
             <=> ~g1 /\ ~g2 /\ ~g3 /\ ~g4 /\ ~g5 /\ ~g6 /\ ~g7

\* C7 witness: Essentials-First was returned for an input that the later rule
\* Frequent Small Spender (frequency > 8, avg_amount < 1000) matches too.
C7_Witness ==
  /\ pc = "done"
  /\ Serving("persona")
  /\ PersonaLabel = <<"Essentials-First">>
  /\ req.frequency[1] > 8 * req.frequency[2]
  /\ req.avg_amount[1] < 1000 * req.avg_amount[2]

(* claims about /anomalies, under Spec *)

Descending(s) == \A q \in 1..(Len(s) - 1) : s[q] >= s[q + 1]

\* C8 as stated: the anomalies are valid row indices and the scores list of
\* the response is in descending order.
C8_ScoresListDescending ==
  Succeeded("anomalies") =>
    /\ \A q \in DOMAIN resp.body.anomalies :
         resp.body.anomalies[q] \in 0..(Len(req.transactions) - 1)
    /\ Descending(resp.body.scores)

\* C8 amended: the anomalies are valid row indices in ascending order,
\* scores[k] is the score of row anomalies[k], and it is the entries of
\* high_risk_transactions, the same rows with the same scores, that are in
\* descending order of anomaly_score.
C8_HighRiskDescending ==
  Succeeded("anomalies") =>
    LET b == resp.body
        hr == b.high_risk_transactions
    IN  /\ \A q \in DOMAIN b.anomalies :
             b.anomalies[q] \in 0..(Len(req.transactions) - 1)
        /\ \A q \in 1..(Len(b.anomalies) - 1) : b.anomalies[q] < b.anomalies[q + 1]
        /\ Len(b.scores) = Len(b.anomalies)
        /\ Len(hr) = Len(b.anomalies)
        /\ \A q \in DOMAIN hr : \E r \in DOMAIN b.anomalies :
             hr[q].index = b.anomalies[r] /\ hr[q].anomaly_score = b.scores[r]
        /\ {hr[q].index : q \in DOMAIN hr} = Range(b.anomalies)
        /\ Descending([q \in DOMAIN hr |-> hr[q].anomaly_score])

\* C8 witness: at least two rows were flagged and the scores list, in index
\* order, is not descending.
C8_Witness ==
  /\ Succeeded("anomalies")
  /\ Len(resp.body.anomalies) >= 2
  /\ ~Descending(resp.body.scores)

(* claims about /forecast, under Spec *)

LatestDate(txs) == SetMax({txs[i].ts \div TicksPerDay : i \in DOMAIN txs})

LatestExpenseDate(txs) ==
  SetMax({txs[i].ts \div TicksPerDay : i \in {j \in DOMAIN txs : txs[j].type = "Expense"}})

\* C10 as stated: the forecast dates are consecutive days, the first being
\* the day after the latest date among all transactions of the request.
C10_StartsAfterLatestTransaction ==
  Succeeded("forecast") =>
    \A i \in DOMAIN resp.body.forecast :
      resp.body.forecast[i].date = LatestDate(req.transactions) + i

\* C10 amended: the forecast dates are consecutive days, the first being the
\* day after the latest date among the Expense transactions of the request.
C10_StartsAfterLatestExpense ==
  Succeeded("forecast") =>
    \A i \in DOMAIN resp.body.forecast :
      resp.body.forecast[i].date = LatestExpenseDate(req.transactions) + i

\* C10 witness: a forecast of several days for a request whose latest
\* transaction is an Income dated after the last Expense.
C10_Witness ==
  /\ Succeeded("forecast")
  /\ Len(resp.body.forecast) >= 2
  /\ LatestDate(req.transactions) > LatestExpenseDate(req.transactions)

(* claims about /forecast, /score-transaction and the engines' outcomes *)

\* C11: a successful /forecast response holds exactly forecast_days points,
\* for every integer forecast_days the request model accepts.
C11_ForecastLengthIsHorizon ==
  Succeeded("forecast") => Len(resp.body.forecast) = req.forecast_days

\* C12: the score (in hundredths) lies in [0, 100] and decides the other
\* fields: risk_level is "high" iff score >= 60, "medium" iff 30 <= score < 60,
\* "low" iff score < 30, and is_anomaly holds iff score > 50.
C12_ScoreDecidesFields ==
  (pc = "done" /\ Serving("score")) =>
    LET b == resp.body
        score == b.anomaly_score
    IN  /\ score >= 0 /\ score <= 100
        /\ b.risk_level = "high" <=> score >= 60
        /\ b.risk_level = "medium" <=> (score >= 30 /\ score < 60)
        /\ b.risk_level = "low" <=> score < 30
        /\ b.is_anomaly <=> score > 50

\* C12 witness: the category rule z > 2 and the rule amount > 1.5 * q95 both
\* fired on a history with entries, giving exactly 0.6: "high" and anomalous.
C12_Witness ==
  /\ pc = "done" /\ Serving("score")
  /\ req.historical_transactions # <<>>
  /\ resp.body.anomaly_score = 60
  /\ resp.body.risk_level = "high"
  /\ resp.body.is_anomaly

\* C13: with an empty historical list the response is score 0, not anomalous,
\* risk level "low", whatever the new transaction.
C13_EmptyHistoryIsLowRisk ==
  (pc = "done" /\ Serving("score") /\ req.historical_transactions = <<>>) =>
    /\ resp.body.anomaly_score = 0
    /\ resp.body.is_anomaly = FALSE
    /\ resp.body.risk_level = "low"

\* C13 witness: an Income of the largest amount was scored against an empty
\* history.
C13_Witness ==
  /\ pc = "done" /\ Serving("score")
  /\ req.historical_transactions = <<>>
  /\ req.new_transaction.type = "Income"
  /\ req.new_transaction.amount = 300
  /\ resp.body.anomaly_score = 0

(* claims about the confidence curve, under SpecConfidence *)

\* a > b, a >= b for two floats that are not NaN
RGreater(a, b) == a[1] * b[2] > b[1] * a[2]

RAtLeast(a, b) == a[1] * b[2] >= b[1] * a[2]

\* min(0.95, max(0.6, 1 - (i/N)*0.3) + boost) in units of 1/(100*N): each term
\* of the formula multiplied by 100*N
FormulaConfidence(i, N, boosted) ==
  LET decayed == 100 * N - 30 * i
      floored == IF decayed < 60 * N THEN 60 * N ELSE decayed
      sum == floored + (IF boosted THEN 10 * N ELSE 0)
  IN  IF sum > 95 * N THEN 95 * N ELSE sum

\* the parts of C14 that do not speak of strict decrease: the confidence of
\* point i is the formula's value with boost 0.1 iff there are at least 14
\* days of history, it lies in [0.6, 0.95], and it never increases with i
ConfidenceFormulaAndRange ==
  LET N == req.forecast_days
      c == resp.body.confidences
  IN  /\ Len(c) = N
      /\ \A i \in 1..N :
           /\ c[i][2] > 0
           /\ c[i][1] * 100 * N = FormulaConfidence(i, N, req.days >= 14) * c[i][2]
           /\ RAtLeast(c[i], <<60, 100>>)
           /\ RAtLeast(<<95, 100>>, c[i])
      /\ \A i \in 1..(N - 1) : RAtLeast(c[i], c[i + 1])

\* C14 as stated: the formula, the range [0.6, 0.95], non-increasing in i, and
\* strictly decreasing in i whenever there are fewer than 14 days of history.
C14_StrictlyDecreasingBelow14Days ==
  (pc = "done" /\ Serving("confidence")) =>
    /\ ConfidenceFormulaAndRange
    /\ req.days < 14 =>
         \A i \in 1..(req.forecast_days - 1) :
           RGreater(resp.body.confidences[i], resp.body.confidences[i + 1])

\* C14 amended: the formula, the range and non-increase as stated; with fewer
\* than 14 days of history the confidence strictly decreases from point i to
\* point i + 1 wherever point i + 1 is below the cap of 0.95, that is where
\* 6 * (i + 1) > N -- at every step when N <= 11.
C14_StrictlyDecreasingBelowCap ==
  (pc = "done" /\ Serving("confidence")) =>
    /\ ConfidenceFormulaAndRange
    /\ req.days < 14 =>
         \A i \in 1..(req.forecast_days - 1) :
           6 * (i + 1) > req.forecast_days =>
             RGreater(resp.body.confidences[i], resp.body.confidences[i + 1])

\* C14 witness: a horizon of at least 12 days on fewer than 14 days of
\* history, whose first two points both sit at the cap while the last step
\* strictly decreases.
C14_Witness ==
  /\ pc = "done" /\ Serving("confidence")
  /\ req.days < 14
  /\ req.forecast_days >= 12
  /\ resp.body.confidences[1] = resp.body.confidences[2]
  /\ RGreater(resp.body.confidences[req.forecast_days - 1],
              resp.body.confidences[req.forecast_days])

(* claims about the outcome of a batch call, under Spec *)

\* the result in hand is the whole result of its engine: a cluster for every
\* label KMeans used, together holding every row; every row IsolationForest
\* flagged, with its score and its high-risk entry; a point for each of the
\* days 1..forecast_days
CompleteResult ==
  \/ /\ Serving("cluster")
     /\ resp.body.kind = "clusters"
     /\ Len(resp.body.clusters) = Cardinality(Range(loc.clusters))
     /\ UNION {ClusterIndices(resp.body.clusters[q]) : q \in DOMAIN resp.body.clusters}
          = 0..(Len(req.transactions) - 1)
  \/ /\ Serving("anomalies")
     /\ resp.body.kind = "anomalies"
     /\ Range(resp.body.anomalies)
          = {i - 1 : i \in {j \in DOMAIN loc.anomaly_labels : loc.anomaly_labels[j] = -1}}
     /\ Len(resp.body.scores) = Len(resp.body.anomalies)
     /\ Len(resp.body.high_risk_transactions) = Len(resp.body.anomalies)
  \/ /\ Serving("forecast")
     /\ resp.body.kind = "forecast"
     /\ DOMAIN resp.body.forecast = 1..req.forecast_days

\* C15: a call to /cluster, /anomalies or /forecast hands nothing to the caller
\* before it ends, and ends either with a complete result or with a failure
\* that carries no result at all.
C15_CompleteOrNothing ==
  /\ pc # "done" => resp = NoResp
  /\ pc = "done" =>
       \/ resp.status = 200 /\ CompleteResult
       \/ resp.status >= 400 /\ resp.body = NoBody

\* C15 witness: a library call failed after features had been engineered and
\* the fitting step had started, and the outcome carries no result.
C15_Witness ==
  /\ pc = "done"
  /\ resp.status = 500
  /\ resp.body = NoBody
  /\ \E q \in DOMAIN executed : executed[q] = "feature_engineering"
  /\ \E q \in DOMAIN executed : executed[q] = "model_fitting"

(* claims about the cluster statistics, under Spec *)

\* the rows of the table that the entries of a returned cluster point at
ClusterRows(c) == [q \in DOMAIN c.transactions |-> loc.df[c.transactions[q].index + 1]]

\* the fraction of the Expense rows of `rows` whose category is in S, as a
\* float; 0 when there is no Expense row
ExpenseFraction(rows, S) ==
  LET exp == {q \in DOMAIN rows : rows[q].type = "Expense"}
      hit == {q \in exp : rows[q].category \in S}
  IN  IF exp = {} THEN <<0, 1>> ELSE <<Cardinality(hit), Cardinality(exp)>>

REq(a, b) == a[1] * b[2] = b[1] * a[2]

\* C16: for every returned cluster the essentials ratio and the entertainment
\* ratio handed to the persona rules are the fractions of the cluster's Expense
\* rows whose category is in the fixed set, and lie in [0, 1].
C16_RatiosAreExpenseFractions ==
  Succeeded("cluster") =>
    \A q \in DOMAIN resp.body.clusters :
      LET c == resp.body.clusters[q]
          st == ClusterStats(c.transactions, loc.df)
      IN  /\ REq(st.essentials_ratio, ExpenseFraction(ClusterRows(c), Essentials))
          /\ REq(st.entertainment_ratio, ExpenseFraction(ClusterRows(c), Entertainment))
          /\ RLe(<<0, 1>>, st.essentials_ratio) /\ RLe(st.essentials_ratio, <<1, 1>>)
          /\ RLe(<<0, 1>>, st.entertainment_ratio) /\ RLe(st.entertainment_ratio, <<1, 1>>)

\* the whole days between the earliest and the latest row, (max - min).days
DateSpanDays(rows) ==
  (SetMax({rows[q].ts : q \in DOMAIN rows}) - SetMin({rows[q].ts : q \in DOMAIN rows}))
    \div TicksPerDay

\* C17: for every returned cluster the frequency handed to the persona rules
\* is (count / max(date_span_days, 1)) * 30, which is count * 30 when all its
\* rows fall on one day.
C17_FrequencyFormula ==
  Succeeded("cluster") =>
    \A q \in DOMAIN resp.body.clusters :
      LET c == resp.body.clusters[q]
          st == ClusterStats(c.transactions, loc.df)
          count == Len(c.transactions)
          span == DateSpanDays(ClusterRows(c))
      IN  REq(st.frequency, <<count * 30, IF span > 1 THEN span ELSE 1>>)

(* the unreachable rule of the cascade, under SpecPersona *)

\* the guard of the fourth rule as the source writes it: at least 3 top
\* categories, 500 < avg_amount < 3000 and 0.3 < entertainment_ratio < 0.6
BalancedGuardHolds ==
  /\ Len(req.top_cats) >= 3
  /\ req.avg_amount[1] > 500 * req.avg_amount[2]
  /\ req.avg_amount[1] < 3000 * req.avg_amount[2]
  /\ req.entertainment_ratio[1] * 10 > 3 * req.entertainment_ratio[2]
  /\ req.entertainment_ratio[1] * 10 < 6 * req.entertainment_ratio[2]

\* C18: "Balanced Spender" is never returned: every input that satisfies its
\* guard satisfies the guard of Lifestyle Spender, which is tried first and
\* gives the label.
C18_BalancedSpenderUnreachable ==
  (pc = "done" /\ Serving("persona")) =>
    /\ PersonaLabel # <<"Balanced Spender">>
    /\ BalancedGuardHolds => PersonaLabel = <<"Lifestyle Spender">>

\* C18 witness: an input that satisfies the guard of Balanced Spender, at a
\* frequency of at most 5, was labelled Lifestyle Spender.
C18_Witness ==
  /\ pc = "done" /\ Serving("persona")
  /\ BalancedGuardHolds
  /\ req.frequency[1] <= 5 * req.frequency[2]
  /\ PersonaLabel = <<"Lifestyle Spender">>

(* the trend of a short history, under Spec *)

\* the number of distinct calendar days among the Expense rows of the request
ExpenseDays ==
  Cardinality({req.transactions[q].ts \div TicksPerDay :
                 q \in {r \in DOMAIN req.transactions :
                          req.transactions[r].type = "Expense"}})

\* C19: when an accepted /forecast request has fewer than 7 distinct expense
\* days, the smoothed series is as long as the raw one (so the raw-value fit is
\* not taken), the trend slope is 0, every forecast point has the same level
\* max(100, current EMA), and the reported trend is "stable".
C19_ShortHistoryIsStable ==
  (Serving("forecast") /\ ExpenseDays < 7) =>
    /\ pc = "f_build" =>
         /\ Len(EwmMean(DailyAmounts(loc.daily_expenses),
                        Min(7, Len(loc.daily_expenses)))) = Len(loc.daily_expenses)
         /\ loc.trend_coef = 0
    /\ Succeeded("forecast") =>
         /\ loc.trend_coef = 0
         /\ resp.body.trend = "stable"
         /\ \A i \in DOMAIN resp.body.forecast :
              /\ resp.body.forecast[i].predicted_expense = resp.body.forecast[1].predicted_expense
              /\ resp.body.forecast[i].predicted_expense[1]
                   = (IF loc.current_ema > 100 * FP THEN loc.current_ema ELSE 100 * FP)

\* C19 witness: a forecast of several days from 6 distinct expense days whose
\* daily totals differ was reported stable.
C19_Witness ==
  /\ Succeeded("forecast")
  /\ ExpenseDays = 6
  /\ Len(resp.body.forecast) >= 2
  /\ \E q \in DOMAIN loc.daily_expenses :
       loc.daily_expenses[q].amount # loc.daily_expenses[1].amount
  /\ resp.body.trend = "stable"

====
